---- MODULE Spec2Model ----
(***************************************************************************)
(* Model of src/app.py: the Flask handlers health() and extract_caption()  *)
(* of the Instagram recipe extractor.  JSON values, Python truthiness,     *)
(* membership, subscripting and dict.get are modelled as the interpreter   *)
(* evaluates them, exceptions included.                                    *)
(***************************************************************************)
EXTENDS Integers, Sequences, FiniteSets, TLC

(***************************************************************************)
(* JSON values as Python objects                                           *)
(***************************************************************************)
JNull == [t |-> "null"]
JBool(b) == [t |-> "bool", b |-> b]
JNum(n) == [t |-> "num", n |-> n]
JStr(s) == [t |-> "str", s |-> s]
JList(xs) == [t |-> "list", items |-> xs]
\* a dict is a set of <<key, value>> pairs with distinct keys
JObj(fs) == [t |-> "obj", fields |-> fs]

\* bool(v) / "not v"
Truthy(v) ==
  CASE v.t = "null" -> FALSE
    [] v.t = "bool" -> v.b
    [] v.t = "num" -> v.n # 0
    [] v.t = "str" -> v.s # ""
    [] v.t = "list" -> Len(v.items) > 0
    [] v.t = "obj" -> v.fields # {}

\* type(v).__name__
PyType(v) ==
  CASE v.t = "null" -> "NoneType"
    [] v.t = "bool" -> "bool"
    [] v.t = "num" -> "int"
    [] v.t = "str" -> "str"
    [] v.t = "list" -> "list"
    [] v.t = "obj" -> "dict"

\* "m in s" for two Python strings: substring search
Contains(s, m) ==
  \E i \in 1..(Len(s) - Len(m) + 1) : SubSeq(s, i, i + Len(m) - 1) = m

HasKey(d, k) == \E p \in d.fields : p[1] = k
Lookup(d, k) == (CHOOSE p \in d.fields : p[1] = k)[2]
\* d.get(k, default) on a dict
DictGet(d, k, default) == IF HasKey(d, k) THEN Lookup(d, k) ELSE default

\* outcome of evaluating a Python expression: a value, or a raised exception
Val(v) == [raised |-> FALSE, val |-> v]
Raise(cls, text) == [raised |-> TRUE, cls |-> cls, text |-> text]

\* "k in v" for a string k: dict key, substring, list element; TypeError otherwise
PyIn(k, v) ==
  CASE v.t = "obj" -> Val(HasKey(v, k))
    [] v.t = "str" -> Val(Contains(v.s, k))
    [] v.t = "list" -> Val(\E i \in 1..Len(v.items) : v.items[i] = JStr(k))
    [] OTHER -> Raise("TypeError", "argument of type '" \o PyType(v) \o "' is not iterable")

\* v[k] for a string k: only a dict can be subscripted by a string
\* (a dict without the key raises KeyError)
PyIndex(v, k) ==
  CASE v.t = "obj" /\ HasKey(v, k) -> Val(Lookup(v, k))
    [] v.t = "obj" -> Raise("KeyError", "'" \o k \o "'")
    [] v.t \in {"str", "list"} -> Raise("TypeError", PyType(v) \o " indices must be integers")
    [] OTHER -> Raise("TypeError", "'" \o PyType(v) \o "' object is not subscriptable")

\* v.get(k, default): only a dict has the method
PyGet(v, k, default) ==
  IF v.t = "obj" THEN Val(DictGet(v, k, default))
  ELSE Raise("AttributeError", "'" \o PyType(v) \o "' object has no attribute 'get'")

(***************************************************************************)
(* Responses                                                               *)
(***************************************************************************)
\* jsonify(obj), status
JsonResponse(status, fs) == [status |-> status, body |-> JObj(fs)]
ErrorResponse(status, msg) ==
  JsonResponse(status, {<<"success", JBool(FALSE)>>, <<"error", msg>>})
\* the framework's own error page: an exception that leaves the view function,
\* or an HTTP exception raised by request.get_json(); the body is not JSON
FrameworkResponse(status) == [status |-> status, body |-> [t |-> "html"]]

(***************************************************************************)
(* Configuration and static data of the handlers                           *)
(***************************************************************************)
Marker == "instagram.com"

ConfigErrorResponse ==
  ErrorResponse(500, JStr("Server configuration error: APIFY_TOKEN not set"))
MissingUrlResponse ==
  ErrorResponse(400, JStr("Missing \"url\" parameter in request body"))
InvalidUrlResponse == ErrorResponse(400, JStr("Invalid URL format"))
NotInstagramResponse == ErrorResponse(400, JStr("URL must be from instagram.com"))
NotFoundResponse ==
  ErrorResponse(404, JStr("No data found. The post might be private, deleted, or the URL is invalid."))
UnexpectedFormatResponse ==
  ErrorResponse(500, JStr("Unexpected response format from Apify"))
TimeoutResponse == ErrorResponse(504, JStr("Request timed out. Please try again."))

(***************************************************************************)
(* GET /health                                                             *)
(***************************************************************************)
HealthResponseAlwaysConfigured(tok) ==
  JsonResponse(200, {<<"status", JStr("ok")>>,
                     <<"message", JStr("Instagram Recipe Extractor is running")>>,
                     <<"token_configured", JBool(TRUE)>>})

HealthResponse(tok) ==
  JsonResponse(200, {<<"status", JStr("ok")>>,
                     <<"message", JStr("Instagram Recipe Extractor is running")>>,
                     <<"token_configured", JBool(tok # "")>>})

(***************************************************************************)
(* POST /extract: validation, lines 51-84                                  *)
(***************************************************************************)
\* the view function's outcome before the provider call: a response, or the
\* validated url to go on with
Respond(r) == [go |-> FALSE, resp |-> r]
Proceed(u) == [go |-> TRUE, url |-> u]

\* the behaviours of request.get_json() on a request that carries no JSON body,
\* by Flask release: None up to 2.0, 400 in 2.1 and 2.2, 415 from 2.3 on
FlaskReleases == {"2.0", "2.2", "2.3"}

\* request.get_json(): the parsed body; a body that is not valid JSON aborts
\* with 400 in every release
GetJson(body, flask) ==
  CASE body.kind = "json" -> Val(body.json)
    [] body.kind = "malformed" -> Raise("BadRequest", "Failed to decode JSON object")
    [] body.kind = "absent" ->
         CASE flask = "2.0" -> Val(JNull)
           [] flask = "2.2" -> Raise("BadRequest", "Did not attempt to load JSON data")
           [] flask = "2.3" -> Raise("UnsupportedMediaType", "Did not attempt to load JSON data")

\* an exception that leaves the view function: Flask answers an HTTP exception
\* with its code and anything else with 500 Internal Server Error
UncaughtResponse(e) ==
  CASE e.cls = "BadRequest" -> FrameworkResponse(400)
    [] e.cls = "UnsupportedMediaType" -> FrameworkResponse(415)
    [] OTHER -> FrameworkResponse(500)

\* lines 71-84 without the check of line 79
CheckUrlNoDomain(instagram_url) ==
  IF ~Truthy(instagram_url) \/ instagram_url.t # "str"
  THEN Respond(InvalidUrlResponse)
  ELSE Proceed(instagram_url.s)

\* lines 71-84
CheckUrl(instagram_url) ==
  IF ~Truthy(instagram_url) \/ instagram_url.t # "str"
  THEN Respond(InvalidUrlResponse)
  ELSE IF ~Contains(instagram_url.s, Marker)
  THEN Respond(NotInstagramResponse)
  ELSE Proceed(instagram_url.s)

\* lines 62-84
CheckData(data) ==
  IF ~Truthy(data) THEN Respond(MissingUrlResponse)
  ELSE LET has == PyIn("url", data) IN
       IF has.raised THEN Respond(UncaughtResponse(has))
       ELSE IF ~has.val THEN Respond(MissingUrlResponse)
       ELSE LET u == PyIndex(data, "url") IN
            IF u.raised THEN Respond(UncaughtResponse(u))
            ELSE CheckUrl(u.val)

\* lines 59-84
CheckBody(body, flask) ==
  LET data == GetJson(body, flask) IN
  IF data.raised THEN Respond(UncaughtResponse(data)) ELSE CheckData(data.val)

\* the body read and checked before the token
ValidateBodyFirst(tok, body, flask) ==
  LET v == CheckBody(body, flask) IN
  IF ~v.go THEN v
  ELSE IF tok = "" THEN Respond(ConfigErrorResponse)
  ELSE v

\* lines 51-84
Validate(tok, body, flask) ==
  IF tok = "" THEN Respond(ConfigErrorResponse) ELSE CheckBody(body, flask)

(***************************************************************************)
(* POST /extract: the provider call and its interpretation, lines 86-193   *)
(***************************************************************************)
\* the exception classes of the requests library the handlers tell apart, each
\* with the classes it derives from (itself included)
Ancestors(cls) ==
  CASE cls = "ReadTimeout" -> {"ReadTimeout", "Timeout", "RequestException", "Exception"}
    [] cls = "ConnectTimeout" ->
         {"ConnectTimeout", "ConnectionError", "Timeout", "RequestException", "Exception"}
    [] cls = "ConnectionError" -> {"ConnectionError", "RequestException", "Exception"}
    [] cls = "JSONDecodeError" -> {"JSONDecodeError", "RequestException", "Exception"}
    [] OTHER -> {cls, "Exception"}

\* the default of url is the request's url (line 160) and here that of username too
NormalizeUsernameFromRequest(post_data, instagram_url) ==
  {<<"caption", DictGet(post_data, "caption", JStr(""))>>,
   <<"url", DictGet(post_data, "url", JStr(instagram_url))>>,
   <<"username", DictGet(post_data, "ownerUsername", JStr(instagram_url))>>,
   <<"timestamp", DictGet(post_data, "timestamp", JStr(""))>>,
   <<"likes", DictGet(post_data, "likesCount", JNum(0))>>,
   <<"comments", DictGet(post_data, "commentsCount", JNum(0))>>,
   <<"views", DictGet(post_data, "videoViewCount", JNum(0))>>,
   <<"hashtags", DictGet(post_data, "hashtags", JList(<<>>))>>,
   <<"mentions", DictGet(post_data, "mentions", JList(<<>>))>>,
   <<"location", DictGet(post_data, "locationName", JNull)>>}

\* likes read from the key "likes" instead of "likesCount"
NormalizeWrongKey(post_data, instagram_url) ==
  {<<"caption", DictGet(post_data, "caption", JStr(""))>>,
   <<"url", DictGet(post_data, "url", JStr(instagram_url))>>,
   <<"username", DictGet(post_data, "ownerUsername", JStr("Unknown"))>>,
   <<"timestamp", DictGet(post_data, "timestamp", JStr(""))>>,
   <<"likes", DictGet(post_data, "likes", JNum(0))>>,
   <<"comments", DictGet(post_data, "commentsCount", JNum(0))>>,
   <<"views", DictGet(post_data, "videoViewCount", JNum(0))>>,
   <<"hashtags", DictGet(post_data, "hashtags", JList(<<>>))>>,
   <<"mentions", DictGet(post_data, "mentions", JList(<<>>))>>,
   <<"location", DictGet(post_data, "locationName", JNull)>>}

\* lines 158-169: the data object of a success response; post_data is a dict
Normalize(post_data, instagram_url) ==
  {<<"caption", DictGet(post_data, "caption", JStr(""))>>,
   <<"url", DictGet(post_data, "url", JStr(instagram_url))>>,
   <<"username", DictGet(post_data, "ownerUsername", JStr("Unknown"))>>,
   <<"timestamp", DictGet(post_data, "timestamp", JStr(""))>>,
   <<"likes", DictGet(post_data, "likesCount", JNum(0))>>,
   <<"comments", DictGet(post_data, "commentsCount", JNum(0))>>,
   <<"views", DictGet(post_data, "videoViewCount", JNum(0))>>,
   <<"hashtags", DictGet(post_data, "hashtags", JList(<<>>))>>,
   <<"mentions", DictGet(post_data, "mentions", JList(<<>>))>>,
   <<"location", DictGet(post_data, "locationName", JNull)>>}

SuccessResponse(data) ==
  JsonResponse(200, {<<"success", JBool(TRUE)>>, <<"data", JObj(data)>>})

\* lines 124-130, results a dict with the key "error": the provider's message
\* under the provider's status; .get on an error that is no dict raises
ErrorObject(status, results) ==
  LET error_message ==
        PyGet(Lookup(results, "error"), "message", JStr("Unknown error from Apify"))
  IN IF error_message.raised THEN error_message
     ELSE Val(ErrorResponse(status, error_message.val))

\* lines 132-170, results not an error object; .get on a first element that is
\* no dict raises (line 152)
ResultList(results, instagram_url) ==
  IF results.t # "list" THEN Val(UnexpectedFormatResponse)
  ELSE IF ~Truthy(results) \/ Len(results.items) = 0 THEN Val(NotFoundResponse)
  ELSE LET post_data == results.items[1]
           shortCode == PyGet(post_data, "shortCode", JStr("unknown"))
       IN IF shortCode.raised THEN shortCode
          ELSE Val(SuccessResponse(Normalize(post_data, instagram_url)))

IsErrorObject(results) == results.t = "obj" /\ HasKey(results, "error")

\* the provider's status looked at before its body: anything but 200 is an error
InterpretStatusFirst(status, results, instagram_url) ==
  IF status # 200 /\ ~IsErrorObject(results)
  THEN Val(ErrorResponse(status, JStr("Apify returned an error status")))
  ELSE IF IsErrorObject(results) THEN ErrorObject(status, results)
  ELSE ResultList(results, instagram_url)

\* lines 123-170: the parsed body, whatever the status
Interpret(status, results, instagram_url) ==
  IF IsErrorObject(results) THEN ErrorObject(status, results)
  ELSE ResultList(results, instagram_url)

\* response.json() failing with no handler around it
JsonFailurePropagates(text) == Raise("JSONDecodeError", text)

\* lines 116-121: the handler of the inner try
JsonFailure(text) ==
  Val(ErrorResponse(500, JStr("Invalid response from Apify: " \o text)))

\* lines 86-170: the body of the outer try on the provider's outcome
TryBody(instagram_url, outcome) ==
  IF outcome.kind # "response" THEN Raise(outcome.kind, outcome.text)
  ELSE IF outcome.payload.t = "notjson" THEN JsonFailure(outcome.payload.text)
  ELSE Interpret(outcome.status, outcome.payload, instagram_url)

\* lines 172-193: the except clauses of the outer try, in order
Handlers(attempt) ==
  IF ~attempt.raised THEN attempt.val
  ELSE IF "Timeout" \in Ancestors(attempt.cls) THEN TimeoutResponse
  ELSE IF "RequestException" \in Ancestors(attempt.cls)
  THEN ErrorResponse(503, JStr("Network error: " \o attempt.text))
  ELSE ErrorResponse(500, JStr("Unexpected error: " \o attempt.text))

\* lines 86-193
CallProvider(instagram_url, outcome) == Handlers(TryBody(instagram_url, outcome))

(***************************************************************************)
(* Inputs: request bodies and provider outcomes                            *)
(***************************************************************************)
\* the most elements a provider array holds
MaxResults == 2

\* the requests in flight at once
Reqs == {"r1", "r2"}

Tokens == {"", "apify_api_token"}

ReelUrl == "https://www.instagram.com/reel/abc/"
PostUrl == "https://instagram.com/p/xyz"

JsonBody(v) == [kind |-> "json", json |-> v]
UrlBody(v) == JsonBody(JObj({<<"url", v>>}))

Bodies ==
  { [kind |-> "absent"], [kind |-> "malformed"] }
  \cup { JsonBody(v) : v \in
         { JNull, JBool(FALSE), JBool(TRUE), JNum(0), JNum(5),
           JStr(""), JStr("url"), JStr("hello"),
           JList(<<>>), JList(<<JStr("url")>>), JList(<<JNum(1)>>),
           JObj({}), JObj({<<"link", JStr(ReelUrl)>>}) } }
  \cup { UrlBody(v) : v \in
         { JNull, JStr(""), JNum(0), JNum(7), JBool(TRUE),
           JList(<<JStr(Marker)>>), JObj({<<"href", JStr(ReelUrl)>>}),
           JStr("https://example.com/reel/abc/"), JStr("instagram"),
           JStr(ReelUrl), JStr(PostUrl) } }

Statuses == {200, 400, 429}

\* the first element of a provider array
Items ==
  { JObj({}),
    JObj({<<"caption", JStr("Yum")>>, <<"ownerUsername", JStr("chef")>>}),
    JObj({<<"caption", JStr("Pasta #dinner")>>, <<"url", JStr("https://www.instagram.com/reel/zzz/")>>,
          <<"ownerUsername", JStr("cook")>>, <<"timestamp", JStr("2024-01-01T00:00:00.000Z")>>,
          <<"likesCount", JNum(12)>>, <<"commentsCount", JNum(3)>>, <<"videoViewCount", JNum(250)>>,
          <<"hashtags", JList(<<JStr("dinner")>>)>>, <<"mentions", JList(<<JStr("chef")>>)>>,
          <<"locationName", JStr("Rome")>>, <<"shortCode", JStr("zzz")>>}),
    JObj({<<"caption", JNull>>, <<"likesCount", JStr("12")>>, <<"hashtags", JNull>>}),
    JNum(5),
    JNull }

\* the elements after the first
Filler == JObj({<<"caption", JStr("second")>>, <<"ownerUsername", JStr("other")>>})

Arrays ==
  { <<>> } \cup { <<x>> \o [i \in 1..n |-> Filler] : x \in Items, n \in 0..(MaxResults - 1) }

ErrorObjects ==
  { JObj({<<"error", e>>}) : e \in
    { JObj({<<"type", JStr("rate-limit")>>, <<"message", JStr("X")>>}),
      JObj({<<"type", JStr("unknown")>>}),
      JStr("rate limited"),
      JNull } }

Payloads ==
  { [t |-> "notjson", text |-> "Expecting value: line 1 column 1 (char 0)"],
    JNull, JStr("Service unavailable"), JObj({}), JObj({<<"result", JStr("queued")>>}) }
  \cup ErrorObjects
  \cup { JList(a) : a \in Arrays }

Outcomes ==
  { [kind |-> "ReadTimeout", text |-> "Read timed out. (read timeout=60)"],
    [kind |-> "ConnectTimeout", text |-> "Connection to api.apify.com timed out"],
    [kind |-> "ConnectionError", text |-> "Failed to establish a new connection"] }
  \cup { [kind |-> "response", status |-> st, payload |-> p] : st \in Statuses, p \in Payloads }

(***************************************************************************)
(* State                                                                   *)
(***************************************************************************)
VARIABLES
  APIFY_TOKEN,    \* line 11: read once at import
  pc,             \* per request: "idle", "calling" (the POST is out), "done"
  body,           \* per request: the request body received
  instagram_url,  \* per request: the validated url (line 69)
  outcome,        \* per request: what the provider call came to
  resp,           \* per request: the response returned
  calls,          \* per request: the provider POSTs issued
  health          \* the response of GET /health awaiting delivery

vars == <<APIFY_TOKEN, pc, body, instagram_url, outcome, resp, calls, health>>

NoBody == [kind |-> "none"]
NoOutcome == [kind |-> "none"]
NoResponse == [status |-> 0, body |-> [t |-> "none"]]

Init ==
  /\ APIFY_TOKEN \in Tokens
  /\ pc = [r \in Reqs |-> "idle"]
  /\ body = [r \in Reqs |-> NoBody]
  /\ instagram_url = [r \in Reqs |-> ""]
  /\ outcome = [r \in Reqs |-> NoOutcome]
  /\ resp = [r \in Reqs |-> NoResponse]
  /\ calls = [r \in Reqs |-> 0]
  /\ health = NoResponse

\* extract_caption, lines 47-108: a request arrives, is validated and either
\* answered or sent on to the provider
ExtractStart(r) ==
  /\ pc[r] = "idle"
  /\ \E b \in Bodies, flask \in FlaskReleases :
       LET v == Validate(APIFY_TOKEN, b, flask) IN
       /\ body' = [body EXCEPT ![r] = b]
       /\ IF v.go
          THEN /\ pc' = [pc EXCEPT ![r] = "calling"]
               /\ instagram_url' = [instagram_url EXCEPT ![r] = v.url]
               /\ calls' = [calls EXCEPT ![r] = @ + 1]
               /\ resp' = resp
          ELSE /\ pc' = [pc EXCEPT ![r] = "done"]
               /\ resp' = [resp EXCEPT ![r] = v.resp]
               /\ UNCHANGED <<instagram_url, calls>>
  /\ UNCHANGED <<APIFY_TOKEN, outcome, health>>

\* extract_caption, lines 108-193: requests.post returns or raises, and the
\* handler answers
ExtractFinish(r) ==
  /\ pc[r] = "calling"
  /\ \E o \in Outcomes :
       /\ outcome' = [outcome EXCEPT ![r] = o]
       /\ resp' = [resp EXCEPT ![r] = CallProvider(instagram_url[r], o)]
  /\ pc' = [pc EXCEPT ![r] = "done"]
  /\ UNCHANGED <<APIFY_TOKEN, body, instagram_url, calls, health>>

\* the response leaves; nothing of the request is kept
Deliver(r) ==
  /\ pc[r] = "done"
  /\ pc' = [pc EXCEPT ![r] = "idle"]
  /\ body' = [body EXCEPT ![r] = NoBody]
  /\ instagram_url' = [instagram_url EXCEPT ![r] = ""]
  /\ outcome' = [outcome EXCEPT ![r] = NoOutcome]
  /\ resp' = [resp EXCEPT ![r] = NoResponse]
  /\ calls' = [calls EXCEPT ![r] = 0]
  /\ UNCHANGED <<APIFY_TOKEN, health>>

\* health, lines 38-45
Health ==
  /\ health = NoResponse
  /\ health' = HealthResponse(APIFY_TOKEN)
  /\ UNCHANGED <<APIFY_TOKEN, pc, body, instagram_url, outcome, resp, calls>>

HealthDeliver ==
  /\ health # NoResponse
  /\ health' = NoResponse
  /\ UNCHANGED <<APIFY_TOKEN, pc, body, instagram_url, outcome, resp, calls>>

Next ==
  \/ \E r \in Reqs : ExtractStart(r)
  \/ \E r \in Reqs : ExtractFinish(r)
  \/ \E r \in Reqs : Deliver(r)
  \/ Health
  \/ HealthDeliver

Spec == Init /\ [][Next]_vars

(***************************************************************************)
(* Vocabulary of the properties                                            *)
(***************************************************************************)
Done(r) == pc[r] = "done"
\* the request went on to the provider and the provider call has ended
Answered(r) == Done(r) /\ outcome[r] # NoOutcome
GotJson(r) ==
  Answered(r) /\ outcome[r].kind = "response" /\ outcome[r].payload.t # "notjson"

HasFlag(rsp, flag) ==
  rsp.body.t = "obj" /\ HasKey(rsp.body, "success") /\ Lookup(rsp.body, "success") = JBool(flag)
IsFailure(rsp) == HasFlag(rsp, FALSE)
IsSuccess(rsp) == HasFlag(rsp, TRUE) /\ HasKey(rsp.body, "data")
ErrorText(rsp) == Lookup(rsp.body, "error")
DataOf(rsp) == Lookup(rsp.body, "data")

\* a body that passes the four checks of the specification: an object with a
\* non-empty string url that contains the marker
ValidRequest(b) ==
  /\ b.kind = "json"
  /\ b.json.t = "obj"
  /\ HasKey(b.json, "url")
  /\ Lookup(b.json, "url").t = "str"
  /\ Lookup(b.json, "url").s # ""
  /\ Contains(Lookup(b.json, "url").s, Marker)

\* the output fields with the provider's key of each
FieldKeys ==
  { <<"caption", "caption">>, <<"url", "url">>, <<"username", "ownerUsername">>,
    <<"timestamp", "timestamp">>, <<"likes", "likesCount">>, <<"comments", "commentsCount">>,
    <<"views", "videoViewCount">>, <<"hashtags", "hashtags">>, <<"mentions", "mentions">>,
    <<"location", "locationName">> }

\* the declared type of an output field: NormalizedResult of the specification
DeclaredTypes(field) ==
  CASE field \in {"caption", "url", "username", "timestamp"} -> {"str"}
    [] field \in {"likes", "comments", "views"} -> {"num"}
    [] field \in {"hashtags", "mentions"} -> {"list"}
    [] field = "location" -> {"str", "null"}

\* the default of an output field for a request with url u
DefaultOf(field, u) ==
  CASE field \in {"caption", "timestamp"} -> JStr("")
    [] field = "url" -> JStr(u)
    [] field = "username" -> JStr("Unknown")
    [] field \in {"likes", "comments", "views"} -> JNum(0)
    [] field \in {"hashtags", "mentions"} -> JList(<<>>)
    [] field = "location" -> JNull

FirstItem(r) == outcome[r].payload.items[1]

\* every output field of r's success response is the provider's value when the
\* first element has the key, and the default otherwise
FieldsFollowProvider(r) ==
  /\ DataOf(resp[r]).t = "obj"
  /\ \A fk \in FieldKeys :
       /\ HasKey(DataOf(resp[r]), fk[1])
       /\ Lookup(DataOf(resp[r]), fk[1]) =
            IF HasKey(FirstItem(r), fk[2]) THEN Lookup(FirstItem(r), fk[2])
            ELSE DefaultOf(fk[1], instagram_url[r])
  /\ Cardinality(DataOf(resp[r]).fields) = Cardinality(FieldKeys)

(***************************************************************************)
(* C1: with the token configured, every request body that fails one of the *)
(* four checks (no url, url no string, url empty, url without the marker;  *)
(* body absent, malformed or no object included) is answered 400 with      *)
(* success=false.                                                          *)
(***************************************************************************)
C1_InvalidBodyIs400 ==
  \A r \in Reqs :
    (Done(r) /\ APIFY_TOKEN # "" /\ ~ValidRequest(body[r]))
      => (resp[r].status = 400 /\ IsFailure(resp[r]))

(***************************************************************************)
(* C2: with APIFY_TOKEN empty every /extract request is answered with the  *)
(* ConfigError 500, success=false, whatever its body, and nothing after    *)
(* the token check happens: the provider is never called.                  *)
(***************************************************************************)
C2_NoTokenIs500 ==
  APIFY_TOKEN = "" =>
    \A r \in Reqs :
      /\ pc[r] # "calling"
      /\ calls[r] = 0
      /\ Done(r) => (resp[r] = ConfigErrorResponse /\ resp[r].status = 500
                     /\ IsFailure(resp[r]))

C2_Witness ==
  /\ APIFY_TOKEN = ""
  /\ \E r \in Reqs : Done(r) /\ body[r].kind = "malformed" /\ resp[r].status = 500
  /\ \E r \in Reqs : Done(r) /\ ValidRequest(body[r]) /\ resp[r].status = 500

(***************************************************************************)
(* C3: a provider timeout is answered 504, any other transport error 503,  *)
(* and a provider body that is not JSON 500, never 503 or 504.             *)
(***************************************************************************)
C3_FailureClassFixesStatus ==
  \A r \in Reqs :
    Answered(r) =>
      /\ outcome[r].kind \in {"ReadTimeout", "ConnectTimeout"}
           => (resp[r].status = 504 /\ IsFailure(resp[r]))
      /\ outcome[r].kind = "ConnectionError"
           => (resp[r].status = 503 /\ IsFailure(resp[r]))
      /\ (outcome[r].kind = "response" /\ outcome[r].payload.t = "notjson")
           => (resp[r].status = 500 /\ IsFailure(resp[r]))

C3_Witness ==
  \E r \in Reqs :
    /\ Answered(r) /\ outcome[r].kind = "response"
    /\ outcome[r].payload.t = "notjson" /\ outcome[r].status = 200
    /\ resp[r].status = 500

(***************************************************************************)
(* C4: a provider body that is an object with an error field is answered   *)
(* with success=false, the provider's status, and error.message (or        *)
(* "Unknown error from Apify" when there is no error.message), for every   *)
(* value of the error field.                                               *)
(***************************************************************************)
C4_ErrorObjectForwarded ==
  \A r \in Reqs :
    (GotJson(r) /\ IsErrorObject(outcome[r].payload)) =>
      LET error == Lookup(outcome[r].payload, "error") IN
      /\ resp[r].status = outcome[r].status
      /\ IsFailure(resp[r])
      /\ ErrorText(resp[r]) =
           IF error.t = "obj" /\ HasKey(error, "message") THEN Lookup(error, "message")
           ELSE JStr("Unknown error from Apify")

(***************************************************************************)
(* C5: a parsed provider body that is no error object is answered by its   *)
(* shape alone: no array, 500 "Unexpected response format"; an empty       *)
(* array, 404 with the fixed message; every array of one element or more,  *)
(* 200 with success=true and data.                                         *)
(***************************************************************************)
C5_ShapeFixesStatus ==
  \A r \in Reqs :
    (GotJson(r) /\ ~IsErrorObject(outcome[r].payload)) =>
      LET results == outcome[r].payload IN
      /\ results.t # "list" => resp[r] = UnexpectedFormatResponse
      /\ (results.t = "list" /\ Len(results.items) = 0) => resp[r] = NotFoundResponse
      /\ (results.t = "list" /\ Len(results.items) >= 1)
           => (resp[r].status = 200 /\ IsSuccess(resp[r]))

(***************************************************************************)
(* C6 as stated: in every success response each output field is the        *)
(* provider's value when present and the default otherwise, so that        *)
(* caption, url, username and timestamp are strings, likes, comments and   *)
(* views integers, hashtags and mentions lists.                            *)
(***************************************************************************)
C6_FieldsTyped ==
  \A r \in Reqs :
    (Answered(r) /\ IsSuccess(resp[r])) =>
      /\ FieldsFollowProvider(r)
      /\ \A fk \in FieldKeys :
           Lookup(DataOf(resp[r]), fk[1]).t \in DeclaredTypes(fk[1])

(***************************************************************************)
(* C6 amended: in every success response each of the ten output fields is  *)
(* the provider's value, of whatever type, null included, when the first   *)
(* element has the key, and the default otherwise (url: the request's url, *)
(* username: "Unknown"); a field whose key is absent has its declared      *)
(* type.                                                                   *)
(***************************************************************************)
C6_FieldsDefaulted ==
  \A r \in Reqs :
    (Answered(r) /\ IsSuccess(resp[r])) =>
      /\ FieldsFollowProvider(r)
      /\ \A fk \in FieldKeys :
           ~HasKey(FirstItem(r), fk[2])
             => Lookup(DataOf(resp[r]), fk[1]).t \in DeclaredTypes(fk[1])

C6_Witness ==
  \E r \in Reqs :
    /\ Answered(r) /\ IsSuccess(resp[r])
    /\ HasKey(FirstItem(r), "caption") /\ Lookup(FirstItem(r), "caption") = JNull
    /\ Lookup(DataOf(resp[r]), "caption") = JNull
    /\ Lookup(DataOf(resp[r]), "likes") = JStr("12")
    /\ Lookup(DataOf(resp[r]), "comments") = JNum(0)

(***************************************************************************)
(* C7 as stated: two requests that got the same provider response got the  *)
(* same NormalizedResult, whatever their request urls.                     *)
(***************************************************************************)
C7_SameResponseSameResult ==
  \A a, b \in Reqs :
    (Answered(a) /\ Answered(b) /\ outcome[a] = outcome[b]
       /\ IsSuccess(resp[a]) /\ IsSuccess(resp[b]))
      => DataOf(resp[a]) = DataOf(resp[b])

(***************************************************************************)
(* C7 amended: two requests that got the same provider response got        *)
(* results equal in every field but url; the url fields are equal too when *)
(* the request urls are equal or the provider's first element has a url.   *)
(***************************************************************************)
C7_SameResponseSameResultButUrl ==
  \A a, b \in Reqs :
    (Answered(a) /\ Answered(b) /\ outcome[a] = outcome[b]
       /\ IsSuccess(resp[a]) /\ IsSuccess(resp[b]))
      => /\ \A fk \in FieldKeys :
              fk[1] # "url" =>
                Lookup(DataOf(resp[a]), fk[1]) = Lookup(DataOf(resp[b]), fk[1])
         /\ (instagram_url[a] = instagram_url[b] \/ HasKey(FirstItem(a), "url"))
              => DataOf(resp[a]) = DataOf(resp[b])

C7_Witness ==
  \E a, b \in Reqs :
    /\ a # b /\ Answered(a) /\ Answered(b) /\ outcome[a] = outcome[b]
    /\ IsSuccess(resp[a]) /\ IsSuccess(resp[b])
    /\ instagram_url[a] # instagram_url[b]
    /\ ~HasKey(FirstItem(a), "url")
    /\ Lookup(DataOf(resp[a]), "url") # Lookup(DataOf(resp[b]), "url")

(***************************************************************************)
(* C8: every GET /health is answered 200 with status "ok" and              *)
(* token_configured true exactly when the token is not empty, and serving  *)
(* it issues no provider call and touches no /extract request.             *)
(***************************************************************************)
C8_HealthAlwaysOk ==
  [][(health = NoResponse /\ health' # NoResponse) =>
       /\ health'.status = 200
       /\ Lookup(health'.body, "status") = JStr("ok")
       /\ Lookup(health'.body, "token_configured") = JBool(APIFY_TOKEN # "")
       /\ calls' = calls
       /\ pc' = pc
       /\ outcome' = outcome]_vars

C8_Witness ==
  /\ health # NoResponse
  /\ health.status = 200
  /\ \E r \in Reqs : pc[r] = "calling"
  /\ \E r \in Reqs : Done(r)

(***************************************************************************)
(* C9 as stated: the provider's status is checked first: a success         *)
(* response is returned only if the provider answered 200.                 *)
(***************************************************************************)
C9_SuccessOnlyOn200 ==
  \A r \in Reqs :
    (Answered(r) /\ IsSuccess(resp[r])) => outcome[r].status = 200

(***************************************************************************)
(* C9 amended: the provider's status is not checked: a request is answered *)
(* 200 with success=true exactly when the provider's body parses to a      *)
(* non-empty array whose first element is an object, whatever the          *)
(* provider's status.                                                      *)
(***************************************************************************)
C9_SuccessWhateverStatus ==
  \A r \in Reqs :
    Answered(r) =>
      ((resp[r].status = 200 /\ IsSuccess(resp[r]))
         <=> (/\ GotJson(r)
              /\ outcome[r].payload.t = "list"
              /\ Len(outcome[r].payload.items) >= 1
              /\ FirstItem(r).t = "obj"))

C9_Witness ==
  \E r \in Reqs :
    /\ Answered(r) /\ outcome[r].kind = "response" /\ outcome[r].status = 429
    /\ resp[r].status = 200 /\ IsSuccess(resp[r])

(***************************************************************************)
(* C10 as stated: a request issues the provider POST at most once, and     *)
(* only with the token configured and a url that passed the checks; every  *)
(* request that ends in 400 or in the ConfigError 500 has issued none.     *)
(***************************************************************************)
C10_NoCallOn400 ==
  \A r \in Reqs :
    /\ calls[r] <= 1
    /\ calls[r] = 1 => (APIFY_TOKEN # "" /\ ValidRequest(body[r]))
    /\ (Done(r) /\ (resp[r].status = 400 \/ resp[r] = ConfigErrorResponse))
         => calls[r] = 0

(***************************************************************************)
(* C10 amended: a request issues the provider POST at most once, and only  *)
(* with the token configured and a url that passed the checks; every       *)
(* request answered by a check (the three 400 responses of the validation, *)
(* the ConfigError 500) or by the framework has issued none, and a request *)
(* that issued one and ends in 400 got 400 from the provider with an error *)
(* object.                                                                 *)
(***************************************************************************)
C10_NoCallBeforeValidation ==
  \A r \in Reqs :
    /\ calls[r] <= 1
    /\ calls[r] = 1 => (APIFY_TOKEN # "" /\ ValidRequest(body[r]))
    /\ (Done(r) /\ (resp[r] \in {MissingUrlResponse, InvalidUrlResponse,
                                 NotInstagramResponse, ConfigErrorResponse}
                    \/ resp[r].body.t = "html"))
         => calls[r] = 0
    /\ (Done(r) /\ resp[r].status = 400 /\ calls[r] = 1)
         => (GotJson(r) /\ outcome[r].status = 400 /\ IsErrorObject(outcome[r].payload))

C10_Witness ==
  \E r \in Reqs :
    /\ Done(r) /\ calls[r] = 1 /\ resp[r].status = 400
    /\ \E q \in Reqs : Done(q) /\ calls[q] = 0 /\ resp[q] = NotInstagramResponse

====
